---- MODULE Spec2Model ----
(***************************************************************************)
(* Model of the GBFS station-status client of src/1c/ej1c3.py:             *)
(* StationStatusInfo (the record built from one station object of the      *)
(* feed) and BarcelonaBikingClient (one HTTP GET per call, JSON mapped to  *)
(* records, three queries over the freshly fetched records).               *)
(*                                                                         *)
(* Python values are tagged records [t |-> type, v |-> payload]; a dict is *)
(* a function from its keys to values, a list a sequence.  A call either   *)
(* returns a value, Ret(v), or raises an exception class, Raise(e).        *)
(***************************************************************************)
EXTENDS Integers, Sequences, FiniteSets

VARIABLES
    pc,                  \* position of the calling script: "idle" | "returned"
    op,                  \* the method the script called last
    arg,                 \* the argument of that call
    response,            \* the outcome of the HTTP GET issued by that call
    result,              \* what the call returned or raised
    gets,                \* number of HTTP GETs issued so far
    base_url,            \* BarcelonaBikingClient.base_url
    station_status_url   \* BarcelonaBikingClient.station_status_url

vars == <<pc, op, arg, response, result, gets, base_url, station_status_url>>

---------------------------------------------------------------------------
(* Bounds of the model *)

MaxStations == 2        \* longest `data.stations` list of a feed
MaxCalls == 2           \* calls of the client in one run

---------------------------------------------------------------------------
(* Python values *)

PyNone == [t |-> "NoneType", v |-> 0]
PyBool(b) == [t |-> "bool", v |-> b]
PyInt(n) == [t |-> "int", v |-> n]
PyStr(s) == [t |-> "str", v |-> s]
PyList(seq) == [t |-> "list", v |-> seq]
PyDict(f) == [t |-> "dict", v |-> f]

EmptyDict == PyDict(<<>>)
EmptyList == PyList(<<>>)

Ret(v) == [exc |-> "none", val |-> v]
Raise(e) == [exc |-> e, val |-> PyNone]

\* bool(x): the truth value an `if` or an `and` gives a value
Truthy(x) ==
    CASE x.t = "NoneType" -> FALSE
      [] x.t = "bool" -> x.v
      [] x.t = "int" -> x.v # 0
      [] x.t = "str" -> x.v # ""
      [] x.t = "list" -> Len(x.v) > 0
      [] x.t = "dict" -> DOMAIN x.v # {}

\* dict_get with the default left out: a missing key gives None
dict_get_without_default(d, key, default) ==
    IF key \in DOMAIN d.v THEN d.v[key] ELSE PyNone

\* d.get(key, default) of a dict d
dict_get(d, key, default) ==
    IF key \in DOMAIN d.v THEN d.v[key] ELSE default

\* the characters of the strings the feeds of this model carry
Chars(s) ==
    CASE s = "" -> <<>>
      [] s = "x" -> <<PyStr("x")>>

RECURSIVE SetToSeq(_)
SetToSeq(S) ==
    IF S = {} THEN <<>>
    ELSE LET k == CHOOSE k \in S : TRUE IN <<PyStr(k)>> \o SetToSeq(S \ {k})

\* `for x in value`: the items iterated, or TypeError for a value that is
\* not iterable
Iterate(value) ==
    CASE value.t = "list" -> Ret(value.v)
      [] value.t = "str" -> Ret(Chars(value.v))
      [] value.t = "dict" -> Ret(SetToSeq(DOMAIN value.v))
      [] OTHER -> Raise("TypeError")

\* the first exception among the outcomes of a sequence of calls, evaluated
\* left to right
FirstRaised(outcomes) ==
    LET bad == {i \in 1..Len(outcomes) : outcomes[i].exc # "none"}
    IN  IF bad = {} THEN "none"
        ELSE outcomes[CHOOSE i \in bad : \A j \in bad : i <= j].exc

---------------------------------------------------------------------------
(* class StationStatus(enum.Enum) *)

StationStatusMembers == {"IN_SERVICE", "MAINTENANCE", "OUT_OF_SERVICE"}

\* StationStatus(value): the member with that value, or ValueError
StationStatus(value) ==
    IF value.t = "str" /\ value.v \in StationStatusMembers
    THEN Ret(value.v)
    ELSE Raise("ValueError")

\* @dataclass VehicleType
VehicleType(vehicle_type_id, count) ==
    [vehicle_type_id |-> vehicle_type_id, count |-> count]

---------------------------------------------------------------------------
(* class StationStatusInfo *)

\* StatusOf with the fallback of the except clause set to another member
StatusOfOtherFallback(status_str) ==
    LET member == StationStatus(status_str)
    IN  IF member.exc = "ValueError" THEN "OUT_OF_SERVICE" ELSE member.val

\* the try/except around StationStatus(status_str)
StatusOf(status_str) ==
    LET member == StationStatus(status_str)
    IN  IF member.exc = "ValueError" THEN "IN_SERVICE" ELSE member.val

\* StationStatusInfo.__init__(station_data)
StationStatusInfo(station_data) ==
    IF station_data.t # "dict" THEN Raise("AttributeError")
    ELSE
    LET status_str == dict_get(station_data, "status", PyStr("IN_SERVICE"))
        vehicle_types_data ==
            dict_get(station_data, "vehicle_types_available", EmptyList)
        items == Iterate(vehicle_types_data)
    IN  IF items.exc # "none" THEN Raise(items.exc)
        ELSE IF \E i \in 1..Len(items.val) : items.val[i].t # "dict"
        THEN Raise("AttributeError")
        ELSE Ret([
            station_id |-> dict_get(station_data, "station_id", PyNone),
            status |-> StatusOf(status_str),
            num_bikes_available |->
                dict_get(station_data, "num_bikes_available", PyInt(0)),
            num_bikes_disabled |->
                dict_get(station_data, "num_bikes_disabled", PyInt(0)),
            num_docks_available |->
                dict_get(station_data, "num_docks_available", PyInt(0)),
            is_renting |-> dict_get(station_data, "is_renting", PyBool(FALSE)),
            is_returning |->
                dict_get(station_data, "is_returning", PyBool(FALSE)),
            last_reported |-> dict_get(station_data, "last_reported", PyNone),
            vehicle_types |->
                [i \in 1..Len(items.val) |->
                    VehicleType(
                        dict_get(items.val[i], "vehicle_type_id", PyStr("")),
                        dict_get(items.val[i], "count", PyInt(0)))]])

\* is_operational without its last operand
is_operational_renting_only(self) ==
    IF self.status # "IN_SERVICE" THEN PyBool(FALSE)
    ELSE self.is_renting

\* StationStatusInfo.is_operational: `a and b and c` gives the first falsy
\* operand, or the last one
is_operational(self) ==
    IF self.status # "IN_SERVICE" THEN PyBool(FALSE)
    ELSE IF ~Truthy(self.is_renting) THEN self.is_renting
    ELSE self.is_returning

---------------------------------------------------------------------------
(* class BarcelonaBikingClient *)

BaseUrl == "https://barcelona.publicbikesystem.net/customer/gbfs/v2/en"
StationStatusUrl ==
    "https://barcelona.publicbikesystem.net/customer/gbfs/v2/en/station_status"

\* the exception classes the except clauses of get_stations_status name
RequestExceptions == {"ConnectionError", "Timeout", "JSONDecodeError"}
ValueOrKeyErrors == {"JSONDecodeError", "ValueError", "KeyError"}

\* response.json(): the parsed body, or requests' JSONDecodeError
response_json(resp) ==
    IF resp.body.t = "text" THEN Raise("JSONDecodeError") ELSE Ret(resp.body)

NoStations == [stations |-> <<>>, last_updated |-> PyNone]

\* BuildStations with the records in the opposite order
BuildStationsReversed(stations_data) ==
    [i \in 1..Len(stations_data) |->
        StationStatusInfo(stations_data[Len(stations_data) + 1 - i])]

\* [StationStatusInfo(station_data) for station_data in stations_data]: the
\* outcome of each construction, in order
BuildStations(stations_data) ==
    [i \in 1..Len(stations_data) |-> StationStatusInfo(stations_data[i])]

\* the body of the try block of get_stations_status, from the parsed JSON on
ParseStations(json_data) ==
    IF json_data.t # "dict" THEN Raise("AttributeError")
    ELSE
    LET last_updated == dict_get(json_data, "last_updated", PyNone)
        data == dict_get(json_data, "data", EmptyDict)
    IN  IF data.t # "dict" THEN Raise("AttributeError")
        ELSE
        LET stations_data == Iterate(dict_get(data, "stations", EmptyList))
        IN  IF stations_data.exc # "none" THEN Raise(stations_data.exc)
            ELSE
            LET built == BuildStations(stations_data.val)
            IN  IF FirstRaised(built) # "none" THEN Raise(FirstRaised(built))
                ELSE Ret([stations |-> [i \in 1..Len(built) |-> built[i].val],
                          last_updated |-> last_updated])

\* the try block of get_stations_status
TryFetch(resp) ==
    IF resp.raises # "none" THEN Raise(resp.raises)
    ELSE IF resp.status_code # 200 THEN Ret(NoStations)
    ELSE LET json_data == response_json(resp)
         IN  IF json_data.exc # "none" THEN Raise(json_data.exc)
             ELSE ParseStations(json_data.val)

\* get_stations_status without its except clauses
get_stations_status_uncaught(resp) == TryFetch(resp)

\* BarcelonaBikingClient.get_stations_status, given the outcome of the GET
get_stations_status(resp) ==
    LET tried == TryFetch(resp)
    IN  IF tried.exc = "none" THEN tried
        ELSE IF tried.exc \in RequestExceptions THEN Ret(NoStations)
        ELSE IF tried.exc \in ValueOrKeyErrors THEN Ret(NoStations)
        ELSE tried

\* FirstMatch with the scan going on to the last match
LastMatch(stations, station_id) ==
    LET hits == {i \in 1..Len(stations) :
                    stations[i].station_id = PyStr(station_id)}
    IN  IF hits = {} THEN PyNone
        ELSE stations[CHOOSE i \in hits : \A j \in hits : i >= j]

\* the scan of find_station_by_id: the first station whose station_id == id
FirstMatch(stations, station_id) ==
    LET hits == {i \in 1..Len(stations) :
                    stations[i].station_id = PyStr(station_id)}
    IN  IF hits = {} THEN PyNone
        ELSE stations[CHOOSE i \in hits : \A j \in hits : i <= j]

\* BarcelonaBikingClient.find_station_by_id
find_station_by_id(resp, station_id) ==
    LET fetched == get_stations_status(resp)
    IN  IF fetched.exc # "none" THEN fetched
        ELSE Ret(FirstMatch(fetched.val.stations, station_id))

\* OperationalOnly testing the status alone
InServiceOnly(stations) ==
    LET Keep(station) == station.status = "IN_SERVICE"
    IN  SelectSeq(stations, Keep)

\* [station for station in stations if station.is_operational]
OperationalOnly(stations) ==
    LET Keep(station) == Truthy(is_operational(station))
    IN  SelectSeq(stations, Keep)

\* BarcelonaBikingClient.get_operational_stations
get_operational_stations(resp) ==
    LET fetched == get_stations_status(resp)
    IN  IF fetched.exc # "none" THEN fetched
        ELSE Ret(OperationalOnly(fetched.val.stations))

\* value >= n for a Python value and an int: TypeError unless value is a number
Comparable(value) == value.t \in {"int", "bool"}
AsInt(value) == IF value.t = "bool" THEN (IF value.v THEN 1 ELSE 0) ELSE value.v

\* AtLeast with > for >=
MoreThan(stations, min_bikes) ==
    LET Keep(station) == AsInt(station.num_bikes_available) > min_bikes
    IN  IF \E i \in 1..Len(stations) :
               ~Comparable(stations[i].num_bikes_available)
        THEN Raise("TypeError")
        ELSE Ret(SelectSeq(stations, Keep))

\* the comprehension of get_stations_with_available_bikes
AtLeast(stations, min_bikes) ==
    LET Keep(station) == AsInt(station.num_bikes_available) >= min_bikes
    IN  IF \E i \in 1..Len(stations) :
               ~Comparable(stations[i].num_bikes_available)
        THEN Raise("TypeError")
        ELSE Ret(SelectSeq(stations, Keep))

\* BarcelonaBikingClient.get_stations_with_available_bikes
get_stations_with_available_bikes(resp, min_bikes) ==
    LET fetched == get_stations_status(resp)
    IN  IF fetched.exc # "none" THEN fetched
        ELSE AtLeast(fetched.val.stations, min_bikes)

\* the default of the parameter min_bikes
DefaultMinBikes == 1

---------------------------------------------------------------------------
(* The feeds the server may answer with *)

Absent == [t |-> "absent", v |-> 0]

\* a JSON object holding the fields that are not Absent
Obj(fields) ==
    PyDict([k \in {k \in DOMAIN fields : fields[k].t # "absent"} |-> fields[k]])

Station(id, status, bikes, renting, returning, vehicle_types) ==
    Obj([station_id |-> id, status |-> status, num_bikes_available |-> bikes,
         is_renting |-> renting, is_returning |-> returning,
         vehicle_types_available |-> vehicle_types])

Yes == PyBool(TRUE)
No == PyBool(FALSE)

\* station objects that follow the schema of the feed
SchemaStations == {
    Station(PyStr("A"), PyStr("IN_SERVICE"), PyInt(5), Yes, Yes,
            PyList(<<Obj([vehicle_type_id |-> PyStr("ebike"),
                          count |-> PyInt(5)])>>)),
    Station(PyStr("B"), PyStr("IN_SERVICE"), PyInt(0), No, Yes, Absent),
    Station(PyStr("A"), PyStr("MAINTENANCE"), PyInt(1), Yes, Yes, Absent),
    Station(PyStr("C"), PyStr("OUT_OF_SERVICE"), PyInt(0), Yes, No, EmptyList),
    Station(PyStr("B"), Absent, PyInt(2), Yes, Yes, Absent),
    Station(PyStr("C"), PyStr("IN_SERVICE"), Absent, Yes, Absent, Absent) }

\* station entries with a field absent everywhere, of the wrong type, or
\* out of range, and entries that are no objects
OddStations == {
    EmptyDict,
    PyNone,
    Station(PyStr("A"), PyStr("PLANNED"), PyInt(3), Yes, Yes, Absent),
    Station(PyStr("B"), PyInt(1), PyInt(-1), Yes, Yes, Absent),
    Station(PyStr("C"), PyStr("IN_SERVICE"), PyNone, Yes, Yes, Absent),
    Station(PyStr("A"), PyStr("IN_SERVICE"), PyInt(4), Yes, Yes, PyNone),
    Station(PyStr("B"), PyStr("IN_SERVICE"), PyInt(4), Yes, Yes,
            PyList(<<PyNone>>)) }

StationEntries == SchemaStations \cup OddStations

SeqsUpTo(S, n) == UNION {[1..k -> S] : k \in 0..n}

LastUpdated == {Absent, PyInt(1700000000)}

\* values of `data.stations`
StationsValues ==
    {Absent, PyNone, PyInt(7), PyStr(""), PyStr("x")}
    \cup {PyList(l) : l \in SeqsUpTo(StationEntries, MaxStations)}

\* values of `data`
DataValues ==
    {Absent, PyNone, EmptyList}
    \cup {Obj([stations |-> s]) : s \in StationsValues}

\* bodies that parse as JSON
JsonBodies ==
    {PyNone, EmptyList, PyStr("x")}
    \cup {Obj([last_updated |-> lu, data |-> d]) :
             lu \in LastUpdated, d \in DataValues}

NotJson == [t |-> "text", v |-> "not json"]

Responded(status_code, body) ==
    [raises |-> "none", status_code |-> status_code, body |-> body]

Responses ==
    {[raises |-> e, status_code |-> 0, body |-> NotJson] :
        e \in {"ConnectionError", "Timeout"}}
    \cup {Responded(c, b) : c \in {404, 500},
                            b \in {NotJson, EmptyDict, PyNone}}
    \cup {Responded(200, b) : b \in {NotJson} \cup JsonBodies}

StationIds == {"A", "B", "C", "Z"}
MinBikes == {0, 1, 5}

---------------------------------------------------------------------------
(* The calling script and the calls it makes *)

NoResponse == [raises |-> "none", status_code |-> 0, body |-> NotJson]

\* BarcelonaBikingClient.__init__, before any call
Init ==
    /\ pc = "idle"
    /\ op = "none"
    /\ arg = PyNone
    /\ response = NoResponse
    /\ result = Ret(PyNone)
    /\ gets = 0
    /\ base_url = BaseUrl
    /\ station_status_url = StationStatusUrl

\* the script may call the client
CanCall == pc = "idle" /\ gets < MaxCalls

\* Call with the method fetching the feed a second time
CallFetchingTwice(method, argument, resp, outcome) ==
    /\ pc' = "returned"
    /\ op' = method
    /\ arg' = argument
    /\ response' = resp
    /\ result' = outcome
    /\ gets' = gets + 2
    /\ UNCHANGED <<base_url, station_status_url>>

\* one call: the GET is answered with resp and the method runs to its end
Call(method, argument, resp, outcome) ==
    /\ pc' = "returned"
    /\ op' = method
    /\ arg' = argument
    /\ response' = resp
    /\ result' = outcome
    /\ gets' = gets + 1
    /\ UNCHANGED <<base_url, station_status_url>>

GetStationsStatus ==
    /\ CanCall
    /\ \E resp \in Responses :
           Call("get_stations_status", PyNone, resp, get_stations_status(resp))

FindStationById ==
    /\ CanCall
    /\ \E resp \in Responses, station_id \in StationIds :
           Call("find_station_by_id", PyStr(station_id), resp,
                find_station_by_id(resp, station_id))

GetOperationalStations ==
    /\ CanCall
    /\ \E resp \in Responses :
           Call("get_operational_stations", PyNone, resp,
                get_operational_stations(resp))

GetStationsWithAvailableBikes ==
    /\ CanCall
    /\ \E resp \in Responses, min_bikes \in MinBikes :
           Call("get_stations_with_available_bikes", PyInt(min_bikes), resp,
                get_stations_with_available_bikes(resp, min_bikes))

\* the call without an argument
GetStationsWithAvailableBikesDefault ==
    /\ CanCall
    /\ \E resp \in Responses :
           Call("get_stations_with_available_bikes", PyNone, resp,
                get_stations_with_available_bikes(resp, DefaultMinBikes))

\* the script is done with what the call gave it and goes on
Discard ==
    /\ pc = "returned"
    /\ pc' = "idle"
    /\ op' = "none"
    /\ arg' = PyNone
    /\ response' = NoResponse
    /\ result' = Ret(PyNone)
    /\ UNCHANGED <<gets, base_url, station_status_url>>

Next ==
    \/ GetStationsStatus
    \/ FindStationById
    \/ GetOperationalStations
    \/ GetStationsWithAvailableBikes
    \/ GetStationsWithAvailableBikesDefault
    \/ Discard

Spec == Init /\ [][Next]_vars

---------------------------------------------------------------------------
(* StationStatusInfo on its own: a record is built from one station object *)
(* and its property is_operational is read                                 *)

StationData ==
    {Obj([station_id |-> id, status |-> status, num_bikes_available |-> bikes,
          is_renting |-> renting, is_returning |-> returning,
          vehicle_types_available |-> vehicle_types]) :
        id \in {Absent, PyStr("A")},
        status \in {Absent, PyNone, PyInt(1), PyStr("PLANNED"),
                    PyStr("in_service"), PyStr("IN_SERVICE"),
                    PyStr("MAINTENANCE"), PyStr("OUT_OF_SERVICE")},
        bikes \in {Absent, PyInt(3)},
        renting \in {Absent, PyNone, Yes, No},
        returning \in {Absent, Yes, No},
        vehicle_types \in {Absent, PyNone,
                           PyList(<<Obj([vehicle_type_id |-> PyStr("ebike"),
                                         count |-> PyInt(3)])>>)}}

InitRecord ==
    /\ pc = "idle"
    /\ op = "none"
    /\ arg \in StationData
    /\ response = NoResponse
    /\ result = Ret(PyNone)
    /\ gets = 0
    /\ base_url = BaseUrl
    /\ station_status_url = StationStatusUrl

\* StationStatusInfo(station_data)
Construct ==
    /\ op = "none"
    /\ op' = "StationStatusInfo"
    /\ result' = StationStatusInfo(arg)
    /\ UNCHANGED <<pc, arg, response, gets, base_url, station_status_url>>

\* station.is_operational, read from the record just built
ReadIsOperational ==
    /\ op = "StationStatusInfo"
    /\ result.exc = "none"
    /\ op' = "is_operational"
    /\ arg' = result.val
    /\ result' = Ret(is_operational(result.val))
    /\ UNCHANGED <<pc, response, gets, base_url, station_status_url>>

NextRecord == Construct \/ ReadIsOperational

SpecRecord == InitRecord /\ [][NextRecord]_vars

---------------------------------------------------------------------------
(* Properties of get_stations_status *)

Fetched == op = "get_stations_status"
Answered200 == response.raises = "none" /\ response.status_code = 200
HasKey(d, key) == d.t = "dict" /\ key \in DOMAIN d.v

\* C1: get_stations_status returns exactly ([], None) when the transport
\* raises a request exception, when the status is not 200, when the body does
\* not parse as JSON, and when the body is the empty object {}.
C1_FailureGivesEmptyAndNone ==
    (/\ Fetched
     /\ \/ response.raises \in {"ConnectionError", "Timeout"}
        \/ response.raises = "none" /\ response.status_code # 200
        \/ Answered200 /\ response.body = NotJson
        \/ Answered200 /\ response.body = EmptyDict)
    => result = Ret(NoStations)

C1_Witness ==
    /\ Fetched
    /\ Answered200
    /\ response.body = EmptyDict
    /\ result = Ret(NoStations)

\* C2: no exception propagates out of get_stations_status: for every outcome
\* of the GET the call returns a (list, timestamp) pair.
C2_NeverRaises == Fetched => result.exc = "none"

\* C3: a 200 response that parses as JSON but lacks `data`, or `stations`
\* inside `data`, gives an empty list with a None timestamp, whatever other
\* keys the body carries.
C3_MissingKeyGivesEmptyAndNone ==
    (/\ Fetched
     /\ Answered200
     /\ response.body.t = "dict"
     /\ \/ ~HasKey(response.body, "data")
        \/ /\ response.body.v.data.t = "dict"
           /\ ~HasKey(response.body.v.data, "stations"))
    => result = Ret(NoStations)

\* the `data.stations` list of a 200 response whose body has one
HasStationList ==
    /\ Answered200
    /\ HasKey(response.body, "data")
    /\ HasKey(response.body.v.data, "stations")
    /\ response.body.v.data.v.stations.t = "list"
StationList == response.body.v.data.v.stations.v

\* C4: for a 200 response whose `data.stations` is a list of station objects,
\* get_stations_status returns one record per station object, even when a
\* station has a field absent or of the wrong type.
C4_BadFieldNeverAbortsBatch ==
    (/\ Fetched
     /\ HasStationList
     /\ \A i \in 1..Len(StationList) : StationList[i].t = "dict")
    => /\ result.exc = "none"
       /\ Len(result.val.stations) = Len(StationList)

\* a station object whose recognised fields have the types of the schema
FieldIs(station, key, types) ==
    key \in DOMAIN station.v => station.v[key].t \in types
MatchesSchema(station) ==
    /\ station.t = "dict"
    /\ FieldIs(station, "station_id", {"str"})
    /\ FieldIs(station, "status", {"str"})
    /\ FieldIs(station, "num_bikes_available", {"int"})
    /\ FieldIs(station, "is_renting", {"bool"})
    /\ FieldIs(station, "is_returning", {"bool"})
    /\ FieldIs(station, "vehicle_types_available", {"list"})
    /\ HasKey(station, "vehicle_types_available") =>
           \A i \in 1..Len(station.v.vehicle_types_available.v) :
               station.v.vehicle_types_available.v[i].t = "dict"

SchemaResponse ==
    /\ HasStationList
    /\ FieldIs(response.body, "last_updated", {"int"})
    /\ \A i \in 1..Len(StationList) : MatchesSchema(StationList[i])

\* C5: on a 200 response that matches the schema, get_stations_status returns
\* one record per element of `data.stations`, the i-th built from the i-th
\* station object, paired with `last_updated`, or None when it is absent.
C5_OneRecordPerStationInOrder ==
    (Fetched /\ SchemaResponse)
    => /\ result.exc = "none"
       /\ Len(result.val.stations) = Len(StationList)
       /\ \A i \in 1..Len(StationList) :
              result.val.stations[i] = StationStatusInfo(StationList[i]).val
       /\ result.val.last_updated =
              IF HasKey(response.body, "last_updated")
              THEN response.body.v.last_updated ELSE PyNone

C5_Witness ==
    /\ Fetched
    /\ SchemaResponse
    /\ Len(result.val.stations) = 2
    /\ result.val.stations[1] # result.val.stations[2]
    /\ HasKey(StationList[1], "station_id")
    /\ result.val.stations[1].station_id = StationList[1].v.station_id
    /\ result.val.last_updated = PyInt(1700000000)

---------------------------------------------------------------------------
(* Properties of StationStatusInfo, under SpecRecord *)

Built == op = "StationStatusInfo" /\ result.exc = "none"
Recognized(station_data) ==
    /\ HasKey(station_data, "status")
    /\ station_data.v.status.t = "str"
    /\ station_data.v.status.v \in StationStatusMembers

\* C6: the status of every record built is one of IN_SERVICE, MAINTENANCE,
\* OUT_OF_SERVICE: the input status when that is one of the three, and
\* IN_SERVICE when the input status is missing or is anything else.
C6_StatusIsAlwaysAMember ==
    Built
    => /\ result.val.status \in StationStatusMembers
       /\ Recognized(arg) => result.val.status = arg.v.status.v
       /\ ~Recognized(arg) => result.val.status = "IN_SERVICE"

C6_Witness ==
    /\ Built
    /\ HasKey(arg, "status")
    /\ arg.v.status = PyStr("PLANNED")
    /\ result.val.status = "IN_SERVICE"

\* C7: is_operational is true if and only if status == IN_SERVICE and
\* is_renting and is_returning, and false for every other combination.
C7_OperationalIffInServiceRentingReturning ==
    op = "is_operational"
    => /\ Truthy(result.val) <=>
              /\ arg.status = "IN_SERVICE"
              /\ Truthy(arg.is_renting)
              /\ Truthy(arg.is_returning)
       /\ (arg.is_renting.t = "bool" /\ arg.is_returning.t = "bool")
              => result.val \in {Yes, No}

C7_Witness ==
    /\ op = "is_operational"
    /\ arg.status = "IN_SERVICE"
    /\ arg.is_renting = Yes
    /\ arg.is_returning = No
    /\ result.val = No

---------------------------------------------------------------------------
(* Properties of the three queries *)

\* the records get_stations_status gives for the response of the last call
Snapshot == get_stations_status(response)
Records == Snapshot.val.stations

\* the k-th smallest element of a set of indices
Kth(S, k) == CHOOSE i \in S : Cardinality({j \in S : j < i}) = k - 1

\* seq holds exactly the records of Records at the indices kept, in order
IsSelection(seq, kept) ==
    /\ Len(seq) = Cardinality(kept)
    /\ \A k \in 1..Len(seq) : seq[k] = Records[Kth(kept, k)]

\* C8: get_operational_stations returns exactly the records of the freshly
\* fetched snapshot for which is_operational holds, in their original order.
C8_OperationalAreExactlyTheOperational ==
    (op = "get_operational_stations" /\ Snapshot.exc = "none")
    => /\ result.exc = "none"
       /\ IsSelection(result.val,
              {i \in 1..Len(Records) : Truthy(is_operational(Records[i]))})

C8_Witness ==
    /\ op = "get_operational_stations"
    /\ Snapshot.exc = "none"
    /\ Len(Records) = 2
    /\ ~Truthy(is_operational(Records[1]))
    /\ Records[1].status = "IN_SERVICE"
    /\ Truthy(is_operational(Records[2]))
    /\ result.val = <<Records[2]>>

CountsAreNumbers ==
    \A i \in 1..Len(Records) : Records[i].num_bikes_available.t = "int"
Bikes(i) == Records[i].num_bikes_available.v

\* C9: get_stations_with_available_bikes(min_bikes) returns exactly the
\* records of the freshly fetched snapshot with num_bikes_available >=
\* min_bikes, in their original order; without an argument it gives what
\* min_bikes = 1 gives, and min_bikes = 0 gives every record of a snapshot
\* whose counts are not negative.
C9_AtLeastMinBikes ==
    (/\ op = "get_stations_with_available_bikes"
     /\ Snapshot.exc = "none"
     /\ CountsAreNumbers)
    => LET min_bikes == IF arg = PyNone THEN 1 ELSE arg.v
       IN  /\ result.exc = "none"
           /\ IsSelection(result.val,
                  {i \in 1..Len(Records) : Bikes(i) >= min_bikes})
           /\ (min_bikes = 0 /\ \A i \in 1..Len(Records) : Bikes(i) >= 0)
                  => result.val = Records

C9_Witness ==
    /\ op = "get_stations_with_available_bikes"
    /\ arg = PyNone
    /\ Snapshot.exc = "none"
    /\ CountsAreNumbers
    /\ Len(Records) = 2
    /\ Bikes(1) = 0
    /\ Bikes(2) = 1
    /\ result.val = <<Records[2]>>

\* C10: find_station_by_id(id) returns the first record, in snapshot order,
\* whose station_id equals id, and None when no record of the freshly fetched
\* snapshot has that id, also when the snapshot is empty because the fetch
\* failed.
C10_FirstMatchOrNone ==
    (op = "find_station_by_id" /\ Snapshot.exc = "none")
    => LET hits == {i \in 1..Len(Records) : Records[i].station_id = arg}
       IN  /\ result.exc = "none"
           /\ hits = {} => result.val = PyNone
           /\ hits # {} =>
                  \E i \in hits : /\ \A j \in hits : i <= j
                                  /\ result.val = Records[i]
           /\ (response.raises # "none" \/ response.status_code # 200)
                  => result.val = PyNone

C10_Witness ==
    /\ op = "find_station_by_id"
    /\ Snapshot.exc = "none"
    /\ Len(Records) = 2
    /\ Records[1].station_id = arg
    /\ Records[2].station_id = arg
    /\ Records[1] # Records[2]
    /\ result.val = Records[1]

---------------------------------------------------------------------------
(* StationStatusInfo.get_available_bikes_by_type, and the record built from *)
(* station objects that lack fields or list several vehicle types          *)

MaxVehicleTypes == 2    \* longest `vehicle_types_available` list

\* result[key] = value on a dict held as a function from its keys
Assign(dict, key, value) ==
    [k \in DOMAIN dict \cup {key} |-> IF k = key THEN value ELSE dict[k]]

\* Assign that keeps the value a key already has
AssignIfNew(dict, key, value) ==
    [k \in DOMAIN dict \cup {key} |->
        IF k \in DOMAIN dict THEN dict[k] ELSE value]

\* the loop of get_available_bikes_by_type over the first n vehicle types,
\* with the first write winning
RECURSIVE BikesByTypeFirstWins(_, _)
BikesByTypeFirstWins(vehicle_types, n) ==
    IF n = 0 THEN <<>>
    ELSE AssignIfNew(BikesByTypeFirstWins(vehicle_types, n - 1),
                     vehicle_types[n].vehicle_type_id, vehicle_types[n].count)

\* the loop of get_available_bikes_by_type over the first n vehicle types
RECURSIVE BikesByType(_, _)
BikesByType(vehicle_types, n) ==
    IF n = 0 THEN <<>>
    ELSE Assign(BikesByType(vehicle_types, n - 1),
                vehicle_types[n].vehicle_type_id, vehicle_types[n].count)

\* a value a dict accepts as a key
Hashable(value) == value.t \notin {"list", "dict"}

\* get_available_bikes_by_type with the first occurrence of an id kept
get_available_bikes_by_type_first_wins(self) ==
    IF \E i \in 1..Len(self.vehicle_types) :
           ~Hashable(self.vehicle_types[i].vehicle_type_id)
    THEN Raise("TypeError")
    ELSE Ret(BikesByTypeFirstWins(self.vehicle_types, Len(self.vehicle_types)))

\* StationStatusInfo.get_available_bikes_by_type
get_available_bikes_by_type(self) ==
    IF \E i \in 1..Len(self.vehicle_types) :
           ~Hashable(self.vehicle_types[i].vehicle_type_id)
    THEN Raise("TypeError")
    ELSE Ret(BikesByType(self.vehicle_types, Len(self.vehicle_types)))

\* entries of `vehicle_types_available`
VehicleTypeEntries ==
    {Obj([vehicle_type_id |-> id, count |-> count]) :
        id \in {Absent, PyStr("ebike"), PyStr("mech")},
        count \in {Absent, PyInt(2), PyInt(5)}}
    \cup {Obj([vehicle_type_id |-> EmptyList, count |-> PyInt(2)])}

\* the fields of a station object besides its vehicle types, all present
FullStation ==
    [station_id |-> PyStr("A"), status |-> PyStr("MAINTENANCE"),
     num_bikes_available |-> PyInt(7), num_bikes_disabled |-> PyInt(2),
     num_docks_available |-> PyInt(9), is_renting |-> Yes,
     is_returning |-> Yes, last_reported |-> PyInt(1700000000)]

OptionalFields ==
    {"num_bikes_available", "num_bikes_disabled", "num_docks_available",
     "is_renting", "is_returning", "last_reported"}

\* station objects with any of the optional fields left out and with or
\* without a list of vehicle types
VehicleStationData ==
    {PyDict([k \in (DOMAIN FullStation \ missing) |-> FullStation[k]]) :
        missing \in SUBSET OptionalFields}
    \cup {PyDict([k \in (DOMAIN FullStation \ missing)
                        \cup {"vehicle_types_available"} |->
                    IF k = "vehicle_types_available" THEN PyList(l)
                    ELSE FullStation[k]]) :
             missing \in SUBSET OptionalFields,
             l \in SeqsUpTo(VehicleTypeEntries, MaxVehicleTypes)}

InitVehicles ==
    /\ pc = "idle"
    /\ op = "none"
    /\ arg \in VehicleStationData
    /\ response = NoResponse
    /\ result = Ret(PyNone)
    /\ gets = 0
    /\ base_url = BaseUrl
    /\ station_status_url = StationStatusUrl

\* station.get_available_bikes_by_type(), on the record just built
ReadBikesByType ==
    /\ op = "StationStatusInfo"
    /\ result.exc = "none"
    /\ op' = "get_available_bikes_by_type"
    /\ arg' = result.val
    /\ result' = get_available_bikes_by_type(result.val)
    /\ UNCHANGED <<pc, response, gets, base_url, station_status_url>>

NextVehicles == Construct \/ ReadBikesByType

SpecVehicles == InitVehicles /\ [][NextVehicles]_vars

\* the ids of the vehicle types of a record, and the last position of an id
TypeIds(self) ==
    {self.vehicle_types[i].vehicle_type_id : i \in 1..Len(self.vehicle_types)}
LastOf(self, id) ==
    CHOOSE i \in 1..Len(self.vehicle_types) :
        /\ self.vehicle_types[i].vehicle_type_id = id
        /\ \A j \in (i + 1)..Len(self.vehicle_types) :
               self.vehicle_types[j].vehicle_type_id # id

\* C11: get_available_bikes_by_type returns a mapping with exactly one entry
\* per distinct vehicle_type_id of the record's vehicle_types; an id that
\* occurs more than once maps to the count of its last occurrence, and an
\* empty list gives an empty mapping.
C11_OneEntryPerIdLastWins ==
    (op = "get_available_bikes_by_type" /\ result.exc = "none")
    => /\ DOMAIN result.val = TypeIds(arg)
       /\ \A id \in TypeIds(arg) :
              result.val[id] = arg.vehicle_types[LastOf(arg, id)].count
       /\ Len(arg.vehicle_types) = 0 => DOMAIN result.val = {}

C11_Witness ==
    /\ op = "get_available_bikes_by_type"
    /\ result.exc = "none"
    /\ Len(arg.vehicle_types) = 2
    /\ arg.vehicle_types[1].vehicle_type_id = PyStr("ebike")
    /\ arg.vehicle_types[2].vehicle_type_id = PyStr("ebike")
    /\ arg.vehicle_types[1].count = PyInt(2)
    /\ arg.vehicle_types[2].count = PyInt(5)
    /\ result.val[PyStr("ebike")] = PyInt(5)

---------------------------------------------------------------------------
(* The client across calls *)

\* what a method gives for an argument and the response to its own GET
Outcome(method, argument, resp) ==
    CASE method = "get_stations_status" -> get_stations_status(resp)
      [] method = "find_station_by_id" ->
             find_station_by_id(resp, argument.v)
      [] method = "get_operational_stations" ->
             get_operational_stations(resp)
      [] method = "get_stations_with_available_bikes" ->
             get_stations_with_available_bikes(resp,
                 IF argument = PyNone THEN 1 ELSE argument.v)

CallStep == pc = "idle" /\ pc' = "returned"

---------------------------------------------------------------------------
(* The defaults of StationStatusInfo.__init__, under SpecVehicles *)

\* the value a record field must hold for a station object
CopiedOrDefault(station_data, key, default) ==
    IF HasKey(station_data, key) THEN station_data.v[key] ELSE default

ReceivedVehicleTypes(station_data) ==
    IF HasKey(station_data, "vehicle_types_available")
    THEN station_data.v.vehicle_types_available.v ELSE <<>>

\* C13: a record takes the default of every field its station object lacks
\* and copies every field present: the three counts default to 0,
\* is_renting and is_returning to false, last_reported to None, a missing
\* vehicle_types_available to an empty list; in a vehicle-type entry a
\* missing vehicle_type_id defaults to "" and a missing count to 0, and the
\* list keeps the order received and its duplicates.
C13_MissingFieldsTakeDefaults ==
    Built
    => /\ \A key \in {"num_bikes_available", "num_bikes_disabled",
                      "num_docks_available"} :
              result.val[key] = CopiedOrDefault(arg, key, PyInt(0))
       /\ \A key \in {"is_renting", "is_returning"} :
              result.val[key] = CopiedOrDefault(arg, key, No)
       /\ result.val.last_reported =
              CopiedOrDefault(arg, "last_reported", PyNone)
       /\ LET received == ReceivedVehicleTypes(arg)
          IN  /\ Len(result.val.vehicle_types) = Len(received)
              /\ \A i \in 1..Len(received) :
                     /\ result.val.vehicle_types[i].vehicle_type_id =
                            CopiedOrDefault(received[i], "vehicle_type_id",
                                            PyStr(""))
                     /\ result.val.vehicle_types[i].count =
                            CopiedOrDefault(received[i], "count", PyInt(0))

C13_Witness ==
    /\ Built
    /\ ~HasKey(arg, "num_docks_available")
    /\ ~HasKey(arg, "is_renting")
    /\ ~HasKey(arg, "last_reported")
    /\ HasKey(arg, "num_bikes_available")
    /\ result.val.num_docks_available = PyInt(0)
    /\ result.val.is_renting = No
    /\ result.val.last_reported = PyNone
    /\ result.val.num_bikes_available = PyInt(7)
    /\ Len(ReceivedVehicleTypes(arg)) = 2
    /\ ReceivedVehicleTypes(arg)[1] = EmptyDict
    /\ result.val.vehicle_types[1] = VehicleType(PyStr(""), PyInt(0))
    /\ result.val.vehicle_types[2] = result.val.vehicle_types[1]

---------------------------------------------------------------------------
(* extract_feeds_info of src/1c/ej1c1.py *)

MaxFeeds == 2           \* longest `feeds` list

\* value[key] with a str key: KeyError for a dict without the key, TypeError
\* for a value that is no dict
Subscript(value, key) ==
    IF value.t # "dict" THEN Raise("TypeError")
    ELSE IF key \in DOMAIN value.v THEN Ret(value.v[key])
    ELSE Raise("KeyError")

\* {'name': feed['name'], 'url': feed['url']}
FeedInfo(feed) ==
    LET name == Subscript(feed, "name")
        url == Subscript(feed, "url")
    IN  IF name.exc # "none" THEN name
        ELSE IF url.exc # "none" THEN url
        ELSE Ret(PyDict([name |-> name.val, url |-> url.val]))

\* the loop over feeds
FeedsInfo(feeds) ==
    LET items == Iterate(feeds)
    IN  IF items.exc # "none" THEN items
        ELSE
        LET infos == [i \in 1..Len(items.val) |-> FeedInfo(items.val[i])]
        IN  IF FirstRaised(infos) # "none" THEN Raise(FirstRaised(infos))
            ELSE Ret(PyList([i \in 1..Len(infos) |-> infos[i].val]))

\* the try block of extract_feeds_info
TryExtract(feeds_data) ==
    LET data == Subscript(feeds_data, "data")
    IN  IF data.exc # "none" THEN data
        ELSE
        LET en == Subscript(data.val, "en")
        IN  IF en.exc # "none" THEN en
            ELSE
            LET feeds == Subscript(en.val, "feeds")
            IN  IF feeds.exc # "none" THEN feeds ELSE FeedsInfo(feeds.val)

\* extract_feeds_info(feeds_data)
extract_feeds_info(feeds_data) ==
    IF feeds_data = PyNone THEN Ret(PyNone)
    ELSE LET tried == TryExtract(feeds_data)
         IN  IF tried.exc \in {"KeyError", "TypeError"} THEN Ret(PyNone)
             ELSE tried

\* entries of `feeds`
FeedEntries ==
    {Obj([name |-> name, url |-> url, discovered |-> extra]) :
        name \in {Absent, PyStr("system_information"), PyStr("station_status")},
        url \in {Absent, PyStr("https://example.org/feed")},
        extra \in {Absent, PyInt(1)}}
    \cup {PyNone, PyStr("x")}

\* values of `feeds`
FeedsValues ==
    {Absent, PyNone, PyInt(7), PyStr(""), PyStr("x"), EmptyDict,
     PyDict([name |-> PyStr("a"), url |-> PyStr("b")])}
    \cup {PyList(l) : l \in SeqsUpTo(FeedEntries, MaxFeeds)}

\* values of `en` and of `data`
EnValues ==
    {Absent, PyNone, EmptyList} \cup {Obj([feeds |-> f]) : f \in FeedsValues}
FeedsDataValues ==
    {Absent, PyNone, PyStr("x")} \cup {Obj([en |-> e]) : e \in EnValues}

\* arguments of extract_feeds_info
FeedsData ==
    {PyNone, EmptyList, PyStr("x"), PyInt(7)}
    \cup {Obj([data |-> d]) : d \in FeedsDataValues}

InitFeeds ==
    /\ pc = "idle"
    /\ op = "none"
    /\ arg \in FeedsData
    /\ response = NoResponse
    /\ result = Ret(PyNone)
    /\ gets = 0
    /\ base_url = BaseUrl
    /\ station_status_url = StationStatusUrl

ExtractFeedsInfo ==
    /\ op = "none"
    /\ op' = "extract_feeds_info"
    /\ result' = extract_feeds_info(arg)
    /\ UNCHANGED <<pc, arg, response, gets, base_url, station_status_url>>

NextFeeds == ExtractFeedsInfo

SpecFeeds == InitFeeds /\ [][NextFeeds]_vars

\* the feeds of an argument of the shape data -> en -> feeds, a list whose
\* entries each carry `name` and `url`
HasFeedList(feeds_data) ==
    /\ HasKey(feeds_data, "data")
    /\ HasKey(feeds_data.v.data, "en")
    /\ HasKey(feeds_data.v.data.v.en, "feeds")
    /\ feeds_data.v.data.v.en.v.feeds.t = "list"
FeedList(feeds_data) == feeds_data.v.data.v.en.v.feeds.v
HasFeedsShape(feeds_data) ==
    /\ HasFeedList(feeds_data)
    /\ \A i \in 1..Len(FeedList(feeds_data)) :
           /\ HasKey(FeedList(feeds_data)[i], "name")
           /\ HasKey(FeedList(feeds_data)[i], "url")

\* C14: extract_feeds_info returns None when its input is None or has not
\* the shape data -> en -> feeds with every feed carrying `name` and `url`
\* (never an exception, never a partial list); otherwise it returns one
\* {'name', 'url'} dictionary per feed, in the order of the feeds, with the
\* other fields of a feed dropped.
C14_NoneUnlessShapeElseNameUrlList ==
    op = "extract_feeds_info"
    => /\ result.exc = "none"
       /\ ~HasFeedsShape(arg) => result.val = PyNone
       /\ HasFeedsShape(arg) =>
              result.val =
                  PyList([i \in 1..Len(FeedList(arg)) |->
                             PyDict([name |-> FeedList(arg)[i].v.name,
                                     url |-> FeedList(arg)[i].v.url])])

---------------------------------------------------------------------------
(* MyHTTPRequestHandler of src/1a/ej1a3.py.  A str is the sequence of its  *)
(* characters; the headers are a function from the names of the headers   *)
(* the request carries to their values.                                    *)

MaxHeaderLen == 3       \* longest X-Forwarded-For value

\* the characters str.strip() removes, among those a header value of this
\* model is made of
Whitespace == {" ", "\t"}

\* s.split(',')[0]: the characters before the first comma
RECURSIVE SplitFirst(_)
SplitFirst(s) ==
    IF s = <<>> \/ Head(s) = "," THEN <<>>
    ELSE <<Head(s)>> \o SplitFirst(Tail(s))

RECURSIVE LStrip(_)
LStrip(s) ==
    IF s # <<>> /\ Head(s) \in Whitespace THEN LStrip(Tail(s)) ELSE s

RECURSIVE RStrip(_)
RStrip(s) ==
    IF s # <<>> /\ s[Len(s)] \in Whitespace
    THEN RStrip(SubSeq(s, 1, Len(s) - 1)) ELSE s

\* s.strip()
Strip(s) == RStrip(LStrip(s))

\* `if value:` for what self.headers.get(name) gives: the header is there
\* and is not empty
HeaderSet(headers, name) == name \in DOMAIN headers /\ headers[name] # <<>>

\* _get_client_ip with the first entry returned as it is
get_client_ip_unstripped(headers, client_address) ==
    IF HeaderSet(headers, "X-Forwarded-For")
    THEN SplitFirst(headers["X-Forwarded-For"])
    ELSE IF HeaderSet(headers, "X-Real-IP") THEN headers["X-Real-IP"]
    ELSE client_address[1]

\* MyHTTPRequestHandler._get_client_ip (client_address[0] is the first
\* element of the pair)
get_client_ip(headers, client_address) ==
    IF HeaderSet(headers, "X-Forwarded-For")
    THEN Strip(SplitFirst(headers["X-Forwarded-For"]))
    ELSE IF HeaderSet(headers, "X-Real-IP") THEN headers["X-Real-IP"]
    ELSE client_address[1]

IpPath == <<"/", "i", "p">>

\* MyHTTPRequestHandler.do_GET: the status sent, the headers sent and what
\* was written to wfile
do_GET(request) ==
    IF request.path = IpPath
    THEN [status |-> 200,
          headers |-> [k \in {"Content-Type"} |-> "application/json"],
          body |-> <<[ip |-> get_client_ip(request.headers,
                                           request.client_address)]>>]
    ELSE [status |-> 404, headers |-> <<>>, body |-> <<>>]

HeaderChars == {"1", "2", ",", " ", "\t"}
ForwardedForValues == SeqsUpTo(HeaderChars, MaxHeaderLen)
RealIpValues == {<<>>, <<"3">>, <<" ", "3">>}

\* the X-Forwarded-For and X-Real-IP headers of a request, each there or not
RequestHeaders ==
    {<<>>}
    \cup {[k \in {"X-Forwarded-For"} |-> x] : x \in ForwardedForValues}
    \cup {[k \in {"X-Real-IP"} |-> r] : r \in RealIpValues}
    \cup {[k \in {"X-Forwarded-For", "X-Real-IP"} |->
             IF k = "X-Forwarded-For" THEN x ELSE r] :
             x \in ForwardedForValues, r \in RealIpValues}

Paths ==
    {IpPath, <<"/">>, <<"/", "i", "p", "/">>, <<"/", "I", "P">>,
     <<"/", "i", "p", "?", "a">>, <<"/", "i">>}

PeerAddress == <<<<"9">>, 50000>>

Requests ==
    {[path |-> p, headers |-> h, client_address |-> PeerAddress] :
        p \in Paths, h \in RequestHeaders}

InitIp ==
    /\ pc = "idle"
    /\ op = "none"
    /\ arg \in Requests
    /\ response = NoResponse
    /\ result = Ret(PyNone)
    /\ gets = 0
    /\ base_url = BaseUrl
    /\ station_status_url = StationStatusUrl

\* the server handles the GET request
DoGet ==
    /\ op = "none"
    /\ op' = "do_GET"
    /\ result' = do_GET(arg)
    /\ UNCHANGED <<pc, arg, response, gets, base_url, station_status_url>>

NextIp == DoGet

SpecIp == InitIp /\ [][NextIp]_vars

\* the first comma-separated entry of s without its surrounding whitespace,
\* by positions
FirstEntryStripped(s) ==
    LET stop == CHOOSE k \in 1..(Len(s) + 1) :
                    /\ k = Len(s) + 1 \/ s[k] = ","
                    /\ \A j \in 1..(k - 1) : s[j] # ","
        inside == {i \in 1..(stop - 1) : s[i] \notin {" ", "\t"}}
    IN  IF inside = {} THEN <<>>
        ELSE SubSeq(s, CHOOSE i \in inside : \A j \in inside : i <= j,
                       CHOOSE i \in inside : \A j \in inside : i >= j)

Present(request, name) ==
    name \in DOMAIN request.headers /\ Len(request.headers[name]) > 0

\* C15: GET /ip is answered 200 with JSON {"ip": X}, X being the stripped
\* first comma-separated entry of X-Forwarded-For when that header is
\* present and not empty, otherwise the value of X-Real-IP when that is
\* present and not empty, otherwise client_address[0]; a GET of any other
\* path is answered 404 with no body.
C15_IpByHeaderPrecedenceElse404 ==
    op = "do_GET"
    => IF arg.path = <<"/", "i", "p">>
       THEN /\ result.status = 200
            /\ Len(result.body) = 1
            /\ result.body[1].ip =
                   IF Present(arg, "X-Forwarded-For")
                   THEN FirstEntryStripped(arg.headers["X-Forwarded-For"])
                   ELSE IF Present(arg, "X-Real-IP")
                   THEN arg.headers["X-Real-IP"]
                   ELSE arg.client_address[1]
       ELSE result.status = 404 /\ result.body = <<>>

C15_Witness ==
    /\ op = "do_GET"
    /\ arg.path = <<"/", "i", "p">>
    /\ Present(arg, "X-Forwarded-For")
    /\ Present(arg, "X-Real-IP")
    /\ arg.headers["X-Forwarded-For"] = <<" ", "1", ",">>
    /\ result.status = 200
    /\ result.body = <<[ip |-> <<"1">>]>>

====
